---- MODULE Spec2Model ----
(***************************************************************************)
(* A model of the registry-of-kinds browser (src/browser/src/App.jsx):     *)
(* the schema load and its normalization, hash routing, row selection,    *)
(* the search filter and the example-event generator.                      *)
(*                                                                         *)
(* JavaScript strings that the code inspects character by character (map   *)
(* keys, descriptions, tag names, the search term, the location hash) are  *)
(* sequences of one-character strings.  Strings the code only compares for *)
(* equality (content, field types, placeholders) are TLA+ strings.         *)
(* A JavaScript number is a record [nan, n]: NaN is a value of its own.    *)
(***************************************************************************)
EXTENDS Integers, Sequences, FiniteSets, TLC

VARIABLES
    fetch,         \* how fetch, response.text() and yaml.load will end
    data,          \* the document yaml.load returns: Object.entries(data)
    heap,          \* the FieldSpec objects of the document, by identity
    kinds,         \* the kinds store
    searchTerm,    \* the searchTerm signal
    selectedKind,  \* the selectedKind signal: <<>> is null, <<k>> a record
    loading,       \* the loading signal
    error,         \* the error signal
    hash,          \* window.location.hash
    hashEvents,    \* hashchange events dispatched and not yet handled
    synthPc,       \* where generateExampleJson is
    synthKind,     \* its argument
    event,         \* the event object it builds
    tagIdx,        \* the position of tagDef in kind.tags
    tag,           \* the tag array being built
    nextDef,       \* the chain pointer of the while loop
    returned       \* the events its first and its latest call returned

vars == <<fetch, data, heap, kinds, searchTerm, selectedKind, loading, error, hash,
          hashEvents, synthPc, synthKind, event, tagIdx, tag, nextDef,
          returned>>

browserVars == <<fetch, data, heap, kinds, searchTerm, selectedKind, loading, error,
                 hash, hashEvents>>

synthVars == <<synthPc, synthKind, event, tagIdx, tag, nextDef, returned>>

\* ------------------------------------------------------------------ bounds

\* The largest number of entries of a schema document.
MaxEntries == 3

\* The most hashchange events waiting to be handled.
MaxHashEvents == 1

\* The number of FieldSpec objects of a document.
MaxNodes == 3

\* The elements of a tag array the model keeps: more than any chain that ends
\* pushes.
MaxTagLen == MaxNodes + 2

\* ----------------------------------------------------------------- strings

Null == "null"

\* A JavaScript number.
NaN == [nan |-> TRUE, n |-> 0]

Num(i) == [nan |-> FALSE, n |-> i]

\* String.prototype.toLowerCase, one character.
LowerChar(c) ==
    CASE c = "A" -> "a"
      [] c = "B" -> "b"
      [] c = "E" -> "e"
      [] c = "N" -> "n"
      [] c = "P" -> "p"
      [] c = "X" -> "x"
      [] OTHER -> c

\* String.prototype.toLowerCase.
RECURSIVE ToLowerCase(_)
ToLowerCase(s) ==
    IF s = <<>> THEN <<>> ELSE <<LowerChar(Head(s))>> \o ToLowerCase(Tail(s))

\* String.prototype.startsWith.
StartsWith(s, p) == Len(s) >= Len(p) /\ SubSeq(s, 1, Len(p)) = p

\* String.prototype.includes.
Includes(s, t) ==
    \E i \in 0..(Len(s) - Len(t)) : SubSeq(s, i + 1, i + Len(t)) = t

\* The value of a digit character, 99 for a character that is no digit.
DigitVal(c) ==
    CASE c = "0" -> 0 [] c = "1" -> 1 [] c = "2" -> 2 [] c = "3" -> 3
      [] c = "4" -> 4 [] c = "5" -> 5 [] c = "6" -> 6 [] c = "7" -> 7
      [] c = "8" -> 8 [] c = "9" -> 9
      [] c \in {"a", "A"} -> 10 [] c \in {"b", "B"} -> 11
      [] c \in {"e", "E"} -> 14
      [] OTHER -> 99

\* The longest prefix of s made of digits of the radix.
RECURSIVE DigitPrefix(_, _)
DigitPrefix(s, radix) ==
    IF s = <<>> \/ DigitVal(Head(s)) >= radix
    THEN <<>>
    ELSE <<Head(s)>> \o DigitPrefix(Tail(s), radix)

\* The number a sequence of digits denotes.
RECURSIVE DigitsValue(_, _)
DigitsValue(ds, radix) ==
    IF ds = <<>>
    THEN 0
    ELSE DigitsValue(SubSeq(ds, 1, Len(ds) - 1), radix) * radix
         + DigitVal(ds[Len(ds)])

\* Leading white space removed.
RECURSIVE TrimStart(_)
TrimStart(s) ==
    IF s # <<>> /\ Head(s) = " " THEN TrimStart(Tail(s)) ELSE s

\* parseInt(s) with no radix: white space, a sign, 0x for hexadecimal, then
\* the longest prefix of digits; NaN when there is none.
ParseInt(s) ==
    LET t == TrimStart(s)
        neg == t # <<>> /\ Head(t) = "-"
        u == IF t # <<>> /\ Head(t) \in {"-", "+"} THEN Tail(t) ELSE t
        hex == Len(u) >= 2 /\ u[1] = "0" /\ u[2] \in {"x", "X"}
        radix == IF hex THEN 16 ELSE 10
        v == IF hex THEN SubSeq(u, 3, Len(u)) ELSE u
        ds == DigitPrefix(v, radix)
    IN  IF ds = <<>>
        THEN NaN
        ELSE Num((IF neg THEN -1 ELSE 1) * DigitsValue(ds, radix))

\* The decimal digits of a natural number.
RECURSIVE Digits(_)
Digits(i) ==
    LET d == <<"0", "1", "2", "3", "4", "5", "6", "7", "8", "9">>
    IN  IF i < 10 THEN <<d[i + 1]>> ELSE Digits(i \div 10) \o <<d[(i % 10) + 1]>>

\* Number.prototype.toString.
NumToString(x) ==
    IF x.nan
    THEN <<"N", "a", "N">>
    ELSE IF x.n < 0 THEN <<"-">> \o Digits(-x.n) ELSE Digits(x.n)

\* a === b on numbers: NaN equals nothing.
StrictEq(a, b) == ~a.nan /\ ~b.nan /\ a.n = b.n

\* a < b on numbers.
NumLt(a, b) == ~a.nan /\ ~b.nan /\ a.n < b.n

\* ----------------------------------------------------- schema normalization

\* 'No description'
NoDescription ==
    <<"N", "o", " ", "d", "e", "s", "c", "r", "i", "p", "t", "i", "o", "n">>

\* '#kind-'
KindPrefix == <<"#", "k", "i", "n", "d", "-">>

\* key.startsWith('_')
IsAnchorKey(key) == StartsWith(key, <<"_">>)

\* The record the loop body pushes for one entry.  An absent description,
\* content or tags is the empty value: the code only tests them with ||.
KindOfEntry(e) ==
    [number |-> ParseInt(e.key),
     description |->
        IF e.value.description = <<>> THEN NoDescription ELSE e.value.description,
     content |-> IF e.value.content = "" THEN "unknown" ELSE e.value.content,
     tags |-> e.value.tags]

\* A mutant: no entry is skipped.
EntryIsKindAlways(e) == TRUE

\* Whether the loop body runs for an entry: the anchors are skipped.
EntryIsKind(e) == ~IsAnchorKey(e.key)

\* kindsList when the for loop over Object.entries(data) ends.
RECURSIVE KindsListOf(_)
KindsListOf(entries) ==
    IF entries = <<>>
    THEN <<>>
    ELSE (IF EntryIsKind(Head(entries)) THEN <<KindOfEntry(Head(entries))>> ELSE <<>>)
         \o KindsListOf(Tail(entries))

\* The position of the first entry whose value is null, where value.description
\* throws a TypeError; 0 when the loop runs to its end.
ThrowsAt(entries) ==
    LET bad == {i \in 1..Len(entries) :
                    EntryIsKind(entries[i]) /\ entries[i].value.null}
    IN  IF bad = {} THEN 0 ELSE CHOOSE i \in bad : \A j \in bad : i <= j

\* The comparator (a, b) => a.number - b.number, by the sign of its result:
\* NaN counts as 0 (ECMAScript SortCompare).
CmpLess(a, b) == NumLt(a.number, b.number)

CmpEqual(a, b) == ~CmpLess(a, b) /\ ~CmpLess(b, a)

\* Whether the comparator is a consistent comparator for the elements of the
\* list: with a NaN among two different numbers it is not.
ConsistentCmp(list) ==
    \A i, j, k \in 1..Len(list) :
        (CmpEqual(list[i], list[j]) /\ CmpEqual(list[j], list[k]))
            => CmpEqual(list[i], list[k])

\* x put into a sorted list behind the elements that are not greater.
RECURSIVE InsertSorted(_, _)
InsertSorted(sorted, x) ==
    IF sorted = <<>>
    THEN <<x>>
    ELSE IF CmpLess(x, Head(sorted))
         THEN <<x>> \o sorted
         ELSE <<Head(sorted)>> \o InsertSorted(Tail(sorted), x)

\* A stable sort by the comparator.
RECURSIVE StableSort(_)
StableSort(list) ==
    IF list = <<>>
    THEN <<>>
    ELSE InsertSorted(StableSort(SubSeq(list, 1, Len(list) - 1)), list[Len(list)])

\* The orders of a list.
PermutationsOf(list) ==
    LET n == Len(list)
        bij == {f \in [1..n -> 1..n] : \A i, j \in 1..n : f[i] = f[j] => i = j}
    IN  {[i \in 1..n |-> list[f[i]]] : f \in bij}

\* What kindsList.sort(...) may leave: the stable order for a consistent
\* comparator, and an implementation-defined order otherwise.
SortOutcomes(list) ==
    IF ConsistentCmp(list) THEN {StableSort(list)} ELSE PermutationsOf(list)

\* ------------------------------------------------------------ hash routing

\* kinds.find(k => k.number === kindNumber): <<>> for undefined.
FindKind(ks, kindNumber) ==
    LET hits == {i \in 1..Len(ks) : StrictEq(ks[i].number, kindNumber)}
    IN  IF hits = {}
        THEN <<>>
        ELSE <<ks[CHOOSE i \in hits : \A j \in hits : i <= j]>>

\* A mutant: a hash that names no kind clears the selection.
LoadKindFromHashReset(ks, h, sel) ==
    IF StartsWith(h, KindPrefix)
    THEN FindKind(ks, ParseInt(SubSeq(h, Len(KindPrefix) + 1, Len(h))))
    ELSE sel

\* The selection loadKindFromHash leaves.
LoadKindFromHash(ks, h, sel) ==
    IF StartsWith(h, KindPrefix)
    THEN LET found == FindKind(ks, ParseInt(SubSeq(h, Len(KindPrefix) + 1, Len(h))))
         IN  IF found # <<>> THEN found ELSE sel
    ELSE sel

\* ------------------------------------------------------------------ search

\* kind.tags.map(t => t.name).join(''): an absent name joins as ''.
RECURSIVE JoinNames(_)
JoinNames(tags) ==
    IF tags = <<>> THEN <<>> ELSE Head(tags).name \o JoinNames(Tail(tags))

\* The predicate of kinds.filter.
KindMatches(kind, term) ==
    \/ Includes(NumToString(kind.number), term)
    \/ Includes(ToLowerCase(kind.description), term)
    \/ Includes(JoinNames(kind.tags), term)

RECURSIVE FilterKinds(_, _)
FilterKinds(ks, term) ==
    IF ks = <<>>
    THEN <<>>
    ELSE (IF KindMatches(Head(ks), term) THEN <<Head(ks)>> ELSE <<>>)
         \o FilterKinds(Tail(ks), term)

\* A mutant: an empty term matches nothing.
FilteredKindsBlankNone(ks, st) ==
    LET term == ToLowerCase(st)
    IN  IF term = <<>> THEN <<>> ELSE FilterKinds(ks, term)

\* filteredKinds() for a value of the searchTerm signal.
FilteredKinds(ks, st) ==
    LET term == ToLowerCase(st)
    IN  IF term = <<>> THEN ks ELSE FilterKinds(ks, term)

\* --------------------------------------------------------------- documents

\* A kind definition of the document.
Value(description, content, tags) ==
    [null |-> FALSE, description |-> description, content |-> content,
     tags |-> tags]

\* A key with nothing after the colon: yaml.load gives null.
NullValue == [null |-> TRUE, description |-> <<>>, content |-> "", tags |-> <<>>]

\* A tag definition; an absent name, prefix is '' and an absent next is 0.
TagSpec(name, prefix, next) == [name |-> name, prefix |-> prefix, next |-> next]

\* Whether a key is an integer index, which Object.entries lists first.
IsIndexKey(key) ==
    LET x == ParseInt(key) IN ~x.nan /\ x.n >= 0 /\ NumToString(x) = key

\* The order of the keys in Object.entries: the integer keys ascending, then
\* the other keys as they were inserted; no key twice.
KeysOrdered(ks) ==
    \A i, j \in 1..Len(ks) :
        i < j =>
            /\ ks[i] # ks[j]
            /\ IsIndexKey(ks[j]) =>
                  /\ IsIndexKey(ks[i])
                  /\ ParseInt(ks[i]).n < ParseInt(ks[j]).n

\* The document with these keys and these values, in this order.
Doc(ks, vs) == [i \in 1..Len(ks) |-> [key |-> ks[i], value |-> vs[i]]]

\* The outcomes of fetch and yaml.load: a document, a response that is not ok,
\* a rejected fetch, a YAMLException.
FetchOutcomes == {"ok", "http-error", "network-error", "yaml-error"}

\* The message of the error each outcome throws.
FetchMessage(outcome) ==
    CASE outcome = "http-error" -> "Failed to load schema.yaml"
      [] outcome = "network-error" -> "Failed to fetch"
      [] OTHER -> "YAMLException"

\* Whether the load attempt ends in the catch block.
LoadFails == fetch # "ok" \/ ThrowsAt(data) # 0

\* ------------------------------------------------------ generateExampleJson

\* The event variable before the first call.  Of the event object the model
\* keeps kind, content and tags: id, pubkey and sig are literals and created_at
\* is the clock's value, the same for every kind.
NoEvent == [kind |-> NaN, content |-> "", tags |-> <<>>]

\* A string of letters as JSON.stringify writes it: between quotes.
JsonQuote(str) == <<"\"">> \o str \o <<"\"">>

\* JSON.stringify of an object whose values are strings of letters: its
\* members in order, with no white space.
RECURSIVE JsonMembers(_)
JsonMembers(members) ==
    IF members = <<>>
    THEN <<>>
    ELSE JsonQuote(Head(members).key) \o <<":">> \o JsonQuote(Head(members).value)
         \o (IF Len(members) > 1 THEN <<",">> ELSE <<>>)
         \o JsonMembers(Tail(members))

JsonStringify(members) == <<"{">> \o JsonMembers(members) \o <<"}">>

\* A mutant: the case 'empty' is missing and falls to the default.
ExampleContentNoEmpty(content) ==
    CASE content = "json" ->
            JsonStringify(<<[key |-> <<"j", "s", "o", "n">>,
                             value |-> <<"t", "e", "x", "t">>]>>)
      [] content = "free" -> "<some-text>"
      [] OTHER -> "<some-text>"

\* The switch over kind.content.  The JSON text is a sequence of characters,
\* the other placeholders are strings.
ExampleContent(content) ==
    CASE content = "json" ->
            JsonStringify(<<[key |-> <<"j", "s", "o", "n">>,
                             value |-> <<"t", "e", "x", "t">>]>>)
      [] content = "free" -> "<some-text>"
      [] content = "empty" -> "<empty>"
      [] OTHER -> "<some-text>"

\* The value the switch over nextDef.type pushes for a type that is not
\* 'constrained'.
Placeholder(type) ==
    CASE type = "id" -> "<32-bytes-lowercase-hex-event-id>"
      [] type = "pubkey" -> "<32-bytes-lowercase-hex-pubkey>"
      [] type = "relay" -> "wss://relay.tld"
      [] type = "url" -> "https://website.tld/path"
      [] type = "free" -> "<some-value>"
      [] type = "addr" -> "<stringified-kind-number>:<lowercase-hex-pubkey>:<d-tag>"
      [] type = "kind" -> "<stringified-kind-number>"
      [] OTHER -> "<some-value>"

\* A mutant: a constrained field with no values pushes the fallback value.
FieldPushesAlways(node) ==
    IF node.type = "constrained"
    THEN IF node.either # <<>>
         THEN {<<node.either[i]>> : i \in 1..Len(node.either)}
         ELSE {<<"<some-value>">>}
    ELSE {<<Placeholder(node.type)>>}

\* What one pass of the while loop may push: for a constrained field the
\* element Math.random() picks, and nothing when either is absent or empty.
FieldPushes(node) ==
    IF node.type = "constrained"
    THEN IF node.either # <<>>
         THEN {<<node.either[i]>> : i \in 1..Len(node.either)}
         ELSE {<<>>}
    ELSE {<<Placeholder(node.type)>>}

\* tagDef.name || tagDef.prefix
TagName(tagDef) == IF tagDef.name # <<>> THEN tagDef.name ELSE tagDef.prefix

\* The call generateExampleJson(kind): the event object is built and the
\* switch over kind.content has run.
GenerateStart ==
    /\ synthPc = "idle"
    /\ synthKind # <<>>
    /\ event' = [kind |-> synthKind[1].number,
                 content |-> ExampleContent(synthKind[1].content),
                 tags |-> <<>>]
    /\ tagIdx' = 1
    /\ tag' = <<>>
    /\ nextDef' = 0
    /\ synthPc' = "tags"
    /\ UNCHANGED <<synthKind, returned>>
    /\ UNCHANGED browserVars

\* The head of the for loop over kind.tags: a tag with neither name nor
\* prefix is passed over, another starts its array.
TagBegin ==
    /\ synthPc = "tags"
    /\ tagIdx <= Len(synthKind[1].tags)
    /\ LET tagDef == synthKind[1].tags[tagIdx]
       IN  IF TagName(tagDef) # <<>>
           THEN /\ tag' = <<TagName(tagDef)>>
                /\ nextDef' = tagDef.next
                /\ synthPc' = "chain"
                /\ UNCHANGED tagIdx
           ELSE /\ tagIdx' = tagIdx + 1
                /\ UNCHANGED <<tag, nextDef, synthPc>>
    /\ UNCHANGED <<synthKind, event, returned>>
    /\ UNCHANGED browserVars

\* One pass of while (nextDef).  The array of a chain that never ends grows
\* without bound: the model keeps its first MaxTagLen elements.
ChainStep ==
    /\ synthPc = "chain"
    /\ nextDef # 0
    /\ \E pushed \in FieldPushes(heap[nextDef]) :
          tag' = IF Len(tag \o pushed) <= MaxTagLen THEN tag \o pushed ELSE tag
    /\ nextDef' = heap[nextDef].next
    /\ UNCHANGED <<synthPc, synthKind, event, tagIdx, returned>>
    /\ UNCHANGED browserVars

\* The while loop ends: event.tags.push(tag).
TagEnd ==
    /\ synthPc = "chain"
    /\ nextDef = 0
    /\ event' = [event EXCEPT !.tags = Append(@, tag)]
    /\ tagIdx' = tagIdx + 1
    /\ synthPc' = "tags"
    /\ UNCHANGED <<synthKind, tag, nextDef, returned>>
    /\ UNCHANGED browserVars

\* The for loop ends: the event is returned (as its JSON text, which names
\* the event).  The event of the first call and that of the last one are kept.
GenerateReturn ==
    /\ synthPc = "tags"
    /\ tagIdx > Len(synthKind[1].tags)
    /\ returned' = IF returned = <<>> THEN <<event>> ELSE <<returned[1], event>>
    /\ synthPc' = "idle"
    /\ UNCHANGED <<synthKind, event, tagIdx, tag, nextDef>>
    /\ UNCHANGED browserVars

\* ---------------------------------------------------------- the schema load

SynthIdle ==
    /\ synthPc = "idle"
    /\ synthKind = <<>>
    /\ event = NoEvent
    /\ tagIdx = 0
    /\ tag = <<>>
    /\ nextDef = 0
    /\ returned = <<>>

\* The state after App() has run, for the documents of at most MaxEntries
\* entries with these keys and values, and the hashes the page is opened with.
InitWith(keys, values, heaps, hashes) ==
    /\ fetch \in FetchOutcomes
    /\ \E n \in 0..MaxEntries :
          \E ks \in {k \in [1..n -> keys] : KeysOrdered(k)} :
              \E vs \in [1..n -> values] : data = Doc(ks, vs)
    /\ heap \in heaps
    /\ kinds = <<>>
    /\ searchTerm = <<>>
    /\ selectedKind = <<>>
    /\ loading = TRUE
    /\ error = Null
    /\ hash \in hashes
    /\ hashEvents = 0
    /\ SynthIdle

\* The try block runs to its end: the list is built, sorted and installed,
\* and the kind the hash names is selected.
LoadOk ==
    /\ loading
    /\ ~LoadFails
    /\ \E sorted \in SortOutcomes(KindsListOf(data)) :
          /\ kinds' = sorted
          /\ selectedKind' = LoadKindFromHash(sorted, hash, selectedKind)
    /\ loading' = FALSE
    /\ UNCHANGED <<fetch, data, heap, searchTerm, error, hash, hashEvents>>
    /\ UNCHANGED synthVars

\* fetch rejects, the response is not ok, or yaml.load throws.
LoadFetchFail ==
    /\ loading
    /\ fetch # "ok"
    /\ error' = FetchMessage(fetch)
    /\ loading' = FALSE
    /\ UNCHANGED <<fetch, data, heap, kinds, searchTerm, selectedKind, hash,
                   hashEvents>>
    /\ UNCHANGED synthVars

\* A mutant: the records built before the throw are installed.
LoadNormalizeFailPartial ==
    /\ loading
    /\ fetch = "ok"
    /\ ThrowsAt(data) # 0
    /\ kinds' = KindsListOf(SubSeq(data, 1, ThrowsAt(data) - 1))
    /\ error' = "TypeError"
    /\ loading' = FALSE
    /\ UNCHANGED <<fetch, data, heap, searchTerm, selectedKind, hash, hashEvents>>
    /\ UNCHANGED synthVars

\* value.description throws on a null value, inside the loop: kindsList is a
\* local of the try block and is dropped.
LoadNormalizeFail ==
    /\ loading
    /\ fetch = "ok"
    /\ ThrowsAt(data) # 0
    /\ error' = "TypeError"
    /\ loading' = FALSE
    /\ UNCHANGED <<fetch, data, heap, kinds, searchTerm, selectedKind, hash,
                   hashEvents>>
    /\ UNCHANGED synthVars

\* ------------------------------------------------------- the user's actions

\* The location hash changes (the address bar, a link, history): a
\* hashchange event is dispatched.
SetHash(h) ==
    /\ h # hash
    /\ hashEvents < MaxHashEvents
    /\ hash' = h
    /\ hashEvents' = hashEvents + 1
    /\ UNCHANGED <<fetch, data, heap, kinds, searchTerm, selectedKind, loading,
                   error>>
    /\ UNCHANGED synthVars

\* handleHashChange
HandleHashChange ==
    /\ hashEvents > 0
    /\ hashEvents' = hashEvents - 1
    /\ selectedKind' = LoadKindFromHash(kinds, hash, selectedKind)
    /\ UNCHANGED <<fetch, data, heap, kinds, searchTerm, loading, error, hash>>
    /\ UNCHANGED synthVars

\* The list and the search box are rendered once loading is over without error.
ListShown == ~loading /\ error = Null

\* A click on row i of the rendered list: selectKind.  Assigning the hash
\* dispatches a hashchange event when the hash changes.
SelectKind(i) ==
    /\ ListShown
    /\ i \in 1..Len(FilteredKinds(kinds, searchTerm))
    /\ LET kind == FilteredKinds(kinds, searchTerm)[i]
           h == KindPrefix \o NumToString(kind.number)
       IN  /\ h # hash => hashEvents < MaxHashEvents
           /\ selectedKind' = <<kind>>
           /\ hash' = h
           /\ hashEvents' = IF h # hash THEN hashEvents + 1 ELSE hashEvents
    /\ UNCHANGED <<fetch, data, heap, kinds, searchTerm, loading, error>>
    /\ UNCHANGED synthVars

\* onInput of the search box.
SetSearchTerm(t) ==
    /\ ListShown
    /\ t # searchTerm
    /\ searchTerm' = t
    /\ UNCHANGED <<fetch, data, heap, kinds, selectedKind, loading, error, hash,
                   hashEvents>>
    /\ UNCHANGED synthVars

\* ---------------------------------------------------------- specifications

\* The hashes the page is opened with or moved to.
Hashes ==
    {<<>>, KindPrefix \o <<"1">>, KindPrefix \o <<"2">>, KindPrefix \o <<"x">>}

\* The values of the search box.
Terms == {<<>>, <<"1">>, <<"A">>, <<"a">>}

BrowserKeys == {<<"1">>, <<"2">>, <<"1", "a">>, <<"_", "1">>}

BrowserValues == {Value(<<"A", "b">>, "free", <<>>), NullValue}

Init == InitWith(BrowserKeys, BrowserValues, {<<>>}, Hashes)

Next ==
    \/ LoadOk
    \/ LoadFetchFail
    \/ LoadNormalizeFail
    \/ \E h \in Hashes : SetHash(h)
    \/ HandleHashChange
    \/ \E i \in 1..MaxEntries : SelectKind(i)
    \/ \E t \in Terms : SetSearchTerm(t)

\* The browser: the load and the user's events, in any order.
Spec == Init /\ [][Next]_vars

\* The keys of the documents the normalization is checked on: kind numbers,
\* anchors, and keys that are no decimal integers.
NormKeys == {<<"1">>, <<"2">>, <<"_", "1">>, <<"_", "a">>, <<"a">>, <<"1", "a">>}

NormValues ==
    {Value(<<>>, "", <<>>), Value(<<"A", "b">>, "json", <<>>),
     Value(<<"A", "b">>, "free", <<>>), Value(<<>>, "empty", <<>>),
     Value(<<>>, "xml", <<>>), NullValue}

NormalizeInit == InitWith(NormKeys, NormValues, {<<>>}, {<<>>})

NormalizeNext == LoadOk \/ LoadFetchFail \/ LoadNormalizeFail

\* The schema load alone, over every document of the bounds.
NormalizeSpec == NormalizeInit /\ [][NormalizeNext]_vars

\* The documents the search is checked on: descriptions and tag names in both
\* letter cases, tags with a name, with a prefix only, with both.
SearchKeys == {<<"1">>, <<"2">>, <<"1", "2">>}

SearchValues ==
    {Value(<<>>, "", <<>>),
     Value(<<"A", "b">>, "free",
           <<TagSpec(<<"e">>, <<>>, 0), TagSpec(<<"p">>, <<>>, 0)>>),
     Value(<<"b">>, "json", <<TagSpec(<<>>, <<"p">>, 0)>>),
     Value(<<"a">>, "free", <<TagSpec(<<"E">>, <<"x">>, 0)>>)}

SearchTerms ==
    {<<>>, <<"1">>, <<"2">>, <<"a">>, <<"A">>, <<"a", "b">>, <<"A", "B">>,
     <<"e">>, <<"E">>, <<"p">>, <<"e", "p">>, <<"n">>}

SearchInit == InitWith(SearchKeys, SearchValues, {<<>>}, {<<>>})

SearchNext ==
    \/ LoadOk
    \/ LoadFetchFail
    \/ \E t \in SearchTerms : SetSearchTerm(t)

\* The load and the edits of the search box.
SearchSpec == SearchInit /\ [][SearchNext]_vars

\* The FieldSpec objects the generator is checked on, without their next.
NodeKinds ==
    {[type |-> "relay", either |-> <<>>],
     [type |-> "free", either |-> <<>>],
     [type |-> "geohash", either |-> <<>>],
     [type |-> "constrained", either |-> <<>>],
     [type |-> "constrained", either |-> <<"a", "b">>]}

\* The heaps of MaxNodes objects: each links to the next one, and the last one
\* ends the chain or links back to any of them (an alias of the document to
\* one of its own ancestors).  A tag may enter the chain at any object.
SynthHeaps ==
    {[i \in 1..MaxNodes |->
        [type |-> k[i].type, either |-> k[i].either,
         next |-> IF i < MaxNodes THEN i + 1 ELSE last]] :
     k \in [1..MaxNodes -> NodeKinds], last \in 0..MaxNodes}

\* The tag lists: a first tag with a name, a prefix, both or neither, and
\* possibly a second one behind it.
SynthTagLists ==
    LET first == {TagSpec(n, p, x) :
                    n \in {<<>>, <<"e">>}, p \in {<<>>, <<"p">>}, x \in 0..MaxNodes}
        second == {TagSpec(<<"e">>, <<>>, 0), TagSpec(<<>>, <<"p">>, MaxNodes)}
    IN  {<<>>} \cup {<<t>> : t \in first}
        \cup {<<t, u>> : t \in first, u \in second}

\* The kind definitions the generator is called on: every content with no
\* tags, and every tag list over every heap.
SynthInputs ==
    {[key |-> k, heap |-> <<>>, value |-> Value(<<>>, c, <<>>)] :
        k \in {<<"1">>, <<"1", "2">>}, c \in {"", "json", "free", "empty", "xml"}}
    \cup {[key |-> <<"1">>, heap |-> h, value |-> Value(<<>>, "free", ts)] :
        h \in SynthHeaps, ts \in SynthTagLists}

\* The state after the load of a document of one kind and the selection of
\* that kind: the detail pane calls generateExampleJson(selectedKind()).
SynthInit ==
    \E in \in SynthInputs :
        /\ fetch = "ok"
        /\ data = <<[key |-> in.key, value |-> in.value]>>
        /\ heap = in.heap
        /\ kinds = KindsListOf(data)
        /\ searchTerm = <<>>
        /\ selectedKind = <<kinds[1]>>
        /\ loading = FALSE
        /\ error = Null
        /\ hash = KindPrefix \o NumToString(kinds[1].number)
        /\ hashEvents = 0
        /\ synthPc = "idle"
        /\ synthKind = selectedKind
        /\ event = NoEvent
        /\ tagIdx = 0
        /\ tag = <<>>
        /\ nextDef = 0
        /\ returned = <<>>

SynthNext == GenerateStart \/ TagBegin \/ ChainStep \/ TagEnd \/ GenerateReturn

\* The example generator, called again and again on one kind.
SynthSpec == SynthInit /\ [][SynthNext]_vars

\* The same, running: a call that has started goes on as long as it can.
SynthFairSpec == SynthSpec /\ WF_vars(TagBegin \/ ChainStep \/ TagEnd \/ GenerateReturn)

\* ------------------------------------------------------------------ claims

\* The load ended in the try block: the list is installed.
ListLoaded == ~loading /\ error = Null

\* The list holds exactly the records of the entries at these positions,
\* one for each.
HoldsRecordsOf(positions) ==
    /\ Len(kinds) = Cardinality(positions)
    /\ \E f \in [1..Len(kinds) -> positions] :
          /\ \A i, j \in 1..Len(kinds) : f[i] = f[j] => i = j
          /\ \A i \in 1..Len(kinds) : kinds[i] = KindOfEntry(data[f[i]])

\* A key parseInt reads a number from.
ParsesAsInteger(key) == ~ParseInt(key).nan

NotAnchor(key) == key = <<>> \/ Head(key) # "_"

\* The positions of the entries of the document that are no anchors.
NotAnchorEntries == {i \in 1..Len(data) : NotAnchor(data[i].key)}

\* Those among them whose key is an integer.
KindNumberEntries == {i \in NotAnchorEntries : ParsesAsInteger(data[i].key)}

\* C2: after a successful load, an entry whose key does not start with an
\* underscore and is not parseable as an integer has no record in the list,
\* and every other entry that is no anchor has its record.
C2_NonIntegerKeysSkipped ==
    ListLoaded => HoldsRecordsOf(KindNumberEntries)

\* C3: the installed list is sorted strictly ascending by number, so no two
\* records carry the same number.
C3_SortedStrictlyAscending ==
    ListLoaded =>
        \A i, j \in 1..Len(kinds) :
            i < j => NumLt(kinds[i].number, kinds[j].number)

\* C4: a key whose first character is an underscore produces no record: the
\* installed list holds one record for each of the other keys and no more.
C4_AnchorKeysProduceNoRecord ==
    ListLoaded => HoldsRecordsOf(NotAnchorEntries)

\* A list was installed from a document with an anchor key and a kind key.
C4_Witness ==
    /\ ListLoaded
    /\ kinds # <<>>
    /\ \E i \in 1..Len(data) : ~NotAnchor(data[i].key) /\ data[i].value.null
    /\ \E i \in 1..Len(data) : ~NotAnchor(data[i].key) /\ ~data[i].value.null

\* C9: a load attempt that fails leaves the kinds list as it was, records an
\* error message and ends loading; the list changes only in a load that does
\* not fail, and then to a completely normalized, sorted list.
C9_FailedLoadInstallsNothing ==
    [][/\ (LoadFails /\ (loading' # loading \/ error' # error \/ kinds' # kinds))
          => (kinds' = kinds /\ error' # Null /\ loading' = FALSE)
       /\ (kinds' # kinds)
          => (~LoadFails /\ kinds' \in SortOutcomes(KindsListOf(data)))]_vars

\* A load failed inside the loop after a record had been built.
C9_Witness ==
    /\ ~loading
    /\ error = "TypeError"
    /\ kinds = <<>>
    /\ ThrowsAt(data) > 1
    /\ KindsListOf(SubSeq(data, 1, ThrowsAt(data) - 1)) # <<>>

\* C10: every record of the installed list has content json, free, empty or
\* unknown.
C10_ContentInEnum ==
    ListLoaded =>
        \A i \in 1..Len(kinds) :
            kinds[i].content \in {"json", "free", "empty", "unknown"}

\* A tag's discriminator: its name if present, else its prefix.
Discriminator(t) == IF t.name # <<>> THEN t.name ELSE t.prefix

RECURSIVE JoinDiscriminators(_)
JoinDiscriminators(tags) ==
    IF tags = <<>>
    THEN <<>>
    ELSE Discriminator(Head(tags)) \o JoinDiscriminators(Tail(tags))

\* C5: search returns exactly the records, in their order, for which the
\* lower-cased query is a substring of the decimal string of number, of the
\* lower-cased description, or of the concatenation of the record's tag
\* discriminators (name if present, else prefix).
C5_SearchMatchesDiscriminators ==
    ListLoaded =>
        LET q == ToLowerCase(searchTerm)
            Hit(k) ==
                \/ Includes(NumToString(k.number), q)
                \/ Includes(ToLowerCase(k.description), q)
                \/ Includes(JoinDiscriminators(k.tags), q)
        IN  FilteredKinds(kinds, searchTerm) = SelectSeq(kinds, Hit)

UpperChar(c) ==
    CASE c = "a" -> "A"
      [] c = "b" -> "B"
      [] c = "e" -> "E"
      [] c = "n" -> "N"
      [] c = "p" -> "P"
      [] c = "x" -> "X"
      [] OTHER -> c

RECURSIVE ToUpperCase(_)
ToUpperCase(s) ==
    IF s = <<>> THEN <<>> ELSE <<UpperChar(Head(s))>> \o ToUpperCase(Tail(s))

\* A record with its description and its tag names in upper case.
UpperCased(k) ==
    [k EXCEPT !.description = ToUpperCase(@),
              !.tags = [i \in 1..Len(@) |-> [@[i] EXCEPT !.name = ToUpperCase(@)]]]

\* A record with its description and its tag names in lower case.
LowerCased(k) ==
    [k EXCEPT !.description = ToLowerCase(@),
              !.tags = [i \in 1..Len(@) |-> [@[i] EXCEPT !.name = ToLowerCase(@)]]]

\* The positions of the records search returns.
Returned(ks, st) ==
    {i \in 1..Len(ks) : FilteredKinds(<<ks[i]>>, st) # <<>>}

\* C6: the letter case of the query, of the descriptions and of the tag names
\* never changes which records search returns.
C6_SearchCaseInsensitive ==
    ListLoaded =>
        LET upper == [i \in 1..Len(kinds) |-> UpperCased(kinds[i])]
            lower == [i \in 1..Len(kinds) |-> LowerCased(kinds[i])]
        IN  /\ Returned(kinds, ToUpperCase(searchTerm)) = Returned(kinds, searchTerm)
            /\ Returned(kinds, ToLowerCase(searchTerm)) = Returned(kinds, searchTerm)
            /\ Returned(upper, searchTerm) = Returned(kinds, searchTerm)
            /\ Returned(lower, searchTerm) = Returned(kinds, searchTerm)

\* C1: a call of the generator returns, also on a tag whose field chain is
\* cyclic: the walk of that tag ends after a bounded number of steps.
C1_CyclicChainTerminates == (synthPc # "idle") ~> (synthPc = "idle")

\* The latest call has returned this event.
LastReturned == returned[Len(returned)]

\* The FieldSpec objects a walk from a pointer visits, for a chain that ends
\* within the heap.
RECURSIVE ChainFrom(_, _)
ChainFrom(ptr, fuel) ==
    IF ptr = 0 \/ fuel = 0
    THEN <<>>
    ELSE <<heap[ptr]>> \o ChainFrom(heap[ptr].next, fuel - 1)

\* A FieldSpec that produces a value: every one but a constrained one whose
\* either is absent or empty.
Produces(node) == ~(node.type = "constrained" /\ node.either = <<>>)

\* The positions of the TagSpecs of a record that have a name or a prefix.
Discriminated(tags) ==
    {i \in 1..Len(tags) : tags[i].name # <<>> \/ tags[i].prefix # <<>>}

\* C7: the tags of the event hold, in declaration order, one array for each
\* TagSpec with a name or a prefix; each starts with the discriminator and
\* has one more element for each FieldSpec of the chain that produces a value.
C7_OneArrayPerNamedTag ==
    (synthPc = "idle" /\ returned # <<>>) =>
        LET tags == synthKind[1].tags
            named == Discriminated(tags)
            out == LastReturned.tags
            \* the TagSpec of the j-th array: the j-th named one
            SpecOf(j) == CHOOSE i \in named :
                            Cardinality({h \in named : h < i}) = j - 1
        IN  /\ Len(out) = Cardinality(named)
            /\ \A j \in 1..Len(out) :
                  LET t == tags[SpecOf(j)]
                      chain == ChainFrom(t.next, MaxNodes)
                  IN  /\ out[j][1] = Discriminator(t)
                      /\ Len(out[j]) =
                            1 + Cardinality({n \in 1..Len(chain) : Produces(chain[n])})

\* A call returned for a tag with a prefix and the chain relay ->
\* constrained{a, b} -> free, followed by a tag with a name and no chain: an
\* array of four elements and an array of one.
C7_Witness ==
    /\ synthPc = "idle"
    /\ returned # <<>>
    /\ Len(synthKind[1].tags) = 2
    /\ Len(LastReturned.tags) = 2
    /\ Len(LastReturned.tags[1]) = 4
    /\ LastReturned.tags[1][1] = <<"p">>
    /\ LastReturned.tags[1][2] = "wss://relay.tld"
    /\ LastReturned.tags[1][3] = "b"
    /\ LastReturned.tags[1][4] = "<some-value>"
    /\ LastReturned.tags[2] = <<<<"e">>>>

\* C8: two calls on the same kind record return the same event.
C8_Deterministic ==
    (synthPc = "idle" /\ Len(returned) = 2) => returned[1] = returned[2]

\* The position behind the JSON string that starts at position i of a text,
\* 0 when none starts there: a quote, characters that are neither a quote nor
\* a backslash, a quote.
RECURSIVE StringBody(_, _)
StringBody(s, i) ==
    IF i > Len(s) \/ s[i] = "\\"
    THEN 0
    ELSE IF s[i] = "\"" THEN i + 1 ELSE StringBody(s, i + 1)

JsonStringEnd(s, i) ==
    IF i <= Len(s) /\ s[i] = "\"" THEN StringBody(s, i + 1) ELSE 0

\* Whether the text from position i on is a list of members "k":"v" separated
\* by commas and closed by a brace that ends the text.
RECURSIVE JsonMembersFrom(_, _)
JsonMembersFrom(s, i) ==
    LET k == JsonStringEnd(s, i)
        v == IF k # 0 /\ k <= Len(s) /\ s[k] = ":" THEN JsonStringEnd(s, k + 1) ELSE 0
    IN  /\ v # 0
        /\ v <= Len(s)
        /\ \/ s[v] = "}" /\ v = Len(s)
           \/ s[v] = "," /\ JsonMembersFrom(s, v + 1)

\* Whether a text parses as a JSON object with string values.
ParsesAsJsonObject(s) ==
    /\ Len(s) >= 2
    /\ s[1] = "{"
    /\ \/ s = <<"{", "}">>
       \/ JsonMembersFrom(s, 2)

\* C11: the content of the event is decided by the record's content: json
\* gives a text that parses as a JSON object, free the free-text placeholder,
\* empty the emptiness placeholder, every other value the placeholder of
\* free; the event's kind is the record's number, and a record with no tags
\* gives no tags.
C11_ContentTotalFunction ==
    (synthPc = "idle" /\ returned # <<>>) =>
        LET rec == synthKind[1]
            ev == LastReturned
        IN  /\ IF rec.content = "json"
               THEN ParsesAsJsonObject(ev.content)
               ELSE ev.content = (IF rec.content = "empty"
                                  THEN "<empty>"
                                  ELSE "<some-text>")
            /\ ev.kind = rec.number
            /\ rec.tags = <<>> => ev.tags = <<>>

\* A call returned for the record of {"12": {content: "empty", tags: []}}.
C11_Witness ==
    /\ synthPc = "idle"
    /\ returned # <<>>
    /\ synthKind[1].content = "empty"
    /\ synthKind[1].tags = <<>>
    /\ LastReturned = [kind |-> Num(12), content |-> "<empty>", tags |-> <<>>]

\* C12: search(records, "") returns the list unchanged: the same records in
\* the same order.
C12_EmptyQueryReturnsAll ==
    ListLoaded =>
        /\ FilteredKinds(kinds, <<>>) = kinds
        /\ searchTerm = <<>> => FilteredKinds(kinds, searchTerm) = kinds

\* The search box is empty over a list of several records that another query
\* cuts down.
C12_Witness ==
    /\ ListLoaded
    /\ searchTerm = <<>>
    /\ Len(kinds) = MaxEntries
    /\ FilteredKinds(kinds, <<"e">>) # kinds
    /\ FilteredKinds(kinds, <<"e">>) # <<>>
    /\ FilteredKinds(kinds, searchTerm) = kinds

\* The selection is null or a record of the installed list.
SelectionInstalled ==
    selectedKind = <<>> \/ \E i \in 1..Len(kinds) : kinds[i] = selectedKind[1]

\* The hash is #kind- followed by text from which the number of an installed
\* kind is read.
HashNamesInstalledKind ==
    /\ StartsWith(hash, KindPrefix)
    /\ \E i \in 1..Len(kinds) :
          StrictEq(kinds[i].number,
                   ParseInt(SubSeq(hash, Len(KindPrefix) + 1, Len(hash))))

\* C13: in every reachable state of the browser the selected kind is null or
\* a record of the installed kinds list; handling a hash change whose hash
\* names no installed kind number, before or after the load, leaves the
\* selection unchanged; an edit of the search term changes neither the
\* selection nor the kinds list.
C13_SelectionStaysInstalled ==
    /\ []SelectionInstalled
    /\ [][(hashEvents' < hashEvents /\ ~HashNamesInstalledKind)
            => selectedKind' = selectedKind]_vars
    /\ [][(searchTerm' # searchTerm)
            => (selectedKind' = selectedKind /\ kinds' = kinds)]_vars

\* A kind is selected, the search box holds a term, and a change of the hash
\* to one that names no kind has been handled.
C13_Witness ==
    /\ ListLoaded
    /\ selectedKind # <<>>
    /\ searchTerm # <<>>
    /\ hash = KindPrefix \o <<"x">>
    /\ hashEvents = 0
    /\ SelectionInstalled

====
